---- MODULE Spec2Model ----
(***************************************************************************)
(* rain2d: a software rendering layer.  Color packing (core/color.rs),     *)
(* the RenderTarget pixel store (core/rendertarget.rs) and the RainCore    *)
(* rasterizer and frame loop (core/mod.rs).                                *)
(***************************************************************************)
EXTENDS Integers, Sequences, FiniteSets, TLC

(***************************************************************************)
(* Bounds of the model.                                                    *)
(***************************************************************************)
\* largest width and height of a render target of the unit-level
\* specifications (SpecColor, SpecRT, SpecSurface)
MaxDim == 2
\* largest number of pixels of a surface of SpecSurface
MaxCells == 4
\* coordinates handed to the operations range over -1 .. MaxDim + CoordSlack
CoordSlack == 1

(***************************************************************************)
(* 32-bit words.  A u32 is kept as <<hi, lo>>, two 16-bit halves, so that  *)
(* every value of the type is representable; shifts, OR and the `as u8`    *)
(* truncation are computed on the halves.                                  *)
(***************************************************************************)
RECURSIVE Pow2(_)
Pow2(k) == IF k = 0 THEN 1 ELSE 2 * Pow2(k - 1)

\* bitwise OR of two naturals, bit by bit
RECURSIVE BitOr(_, _)
BitOr(m, n) ==
    IF m = 0 THEN n
    ELSE IF n = 0 THEN m
    ELSE (IF (m % 2 = 1) \/ (n % 2 = 1) THEN 1 ELSE 0) + 2 * BitOr(m \div 2, n \div 2)

\* `x as u32` for a u8 x
U8ToU32(x) == <<0, x>>

\* `v << k` on u32, for 0 <= k < 32 (bits shifted past bit 31 are lost)
Shl(v, k) ==
    IF k >= 16
    THEN <<(v[2] % Pow2(32 - k)) * Pow2(k - 16), 0>>
    ELSE <<(v[1] % Pow2(16 - k)) * Pow2(k) + (v[2] \div Pow2(16 - k)),
           (v[2] % Pow2(16 - k)) * Pow2(k)>>

\* `v >> k` on u32, for 0 <= k < 32
Shr(v, k) ==
    IF k >= 16
    THEN <<0, v[1] \div Pow2(k - 16)>>
    ELSE <<v[1] \div Pow2(k),
           (v[1] % Pow2(k)) * Pow2(16 - k) + (v[2] \div Pow2(k))>>

\* `a | b` on u32
Or32(a, b) == <<BitOr(a[1], b[1]), BitOr(a[2], b[2])>>

\* `v as u8`: the low 8 bits
AsU8(v) == v[2] % 256

(***************************************************************************)
(* Color (core/color.rs)                                                   *)
(***************************************************************************)
Color(r, g, b, a) == [r |-> r, g |-> g, b |-> b, a |-> a]

NONE  == Color(0, 0, 0, 0)
WHITE == Color(255, 255, 255, 255)
RED   == Color(255, 0, 0, 255)

\* impl Into<u32> for Color, with the channels swapped the way a BGRA
\* layout would have them
into_bgra(c) ==
    Or32(Or32(Or32(Shl(U8ToU32(c.a), 24), Shl(U8ToU32(c.b), 16)),
              Shl(U8ToU32(c.g), 8)),
         U8ToU32(c.r))

\* impl Into<u32> for Color
into(c) ==
    Or32(Or32(Or32(Shl(U8ToU32(c.a), 24), Shl(U8ToU32(c.r), 16)),
              Shl(U8ToU32(c.g), 8)),
         U8ToU32(c.b))

\* impl From<u32> for Color, taking green from the wrong byte
from_badshift(n) ==
    [a |-> AsU8(Shr(n, 24)),
     r |-> AsU8(Shr(n, 16)),
     g |-> AsU8(Shr(n, 16)),
     b |-> AsU8(n)]

\* impl From<u32> for Color
from(n) ==
    [a |-> AsU8(Shr(n, 24)),
     r |-> AsU8(Shr(n, 16)),
     g |-> AsU8(Shr(n, 8)),
     b |-> AsU8(n)]

(***************************************************************************)
(* State.                                                                  *)
(***************************************************************************)
VARIABLES
    render_target,   \* RenderTarget { width, height, data }
    panicked,        \* a Vec index was out of range (the thread panics)
    op,              \* the last operation called, with its arguments
    ret,             \* what the last operation returned
    \* RainCore
    exit_on_esc, active, screen_width, screen_height, frame_timer, frame_count,
    \* the minifb window: its title, whether it is open, whether Escape is
    \* down, and the buffer last handed to update_with_buffer
    title, window_open, esc_down, presented,
    \* RainCore::run: the position in the function and its local `elapsed`
    pc, elapsed,
    \* history: the callbacks and window calls of the current tick, the
    \* number of run / on_start / on_exit calls, whether exit() was called
    trace, calls, exit_called,
    \* history: the pixels written by the current tick's on_update, and the
    \* pixels that hold a value written by an earlier tick
    written, stale

rtVars == <<render_target, panicked>>
callVars == <<op, ret>>
coreVars == <<exit_on_esc, active, screen_width, screen_height, frame_timer, frame_count>>
windowVars == <<title, window_open, esc_down, presented>>
runVars == <<pc, elapsed, trace, calls, exit_called>>
frameVars == <<written, stale>>
loopVars == <<coreVars, windowVars, runVars, frameVars>>
vars == <<rtVars, callVars, loopVars>>

\* Option<T>
None == [some |-> FALSE]
Some(v) == [some |-> TRUE, val |-> v]

\* the value of an operation that returns ()
Unit == "()"

(***************************************************************************)
(* RenderTarget (core/rendertarget.rs)                                     *)
(***************************************************************************)
Zero == <<0, 0>>

\* RenderTarget::new
new(width, height) ==
    [width |-> width, height |-> height,
     data |-> [i \in 1 .. width * height |-> Zero]]

\* `self.data[i]`, a read of the Vec: index i counts from 0
Index(data, i) == data[i + 1]

\* `self.data[i] = v`, a write of the Vec; nothing is stored when i is out
\* of range (IndexPanics)
IndexMut(data, i, v) ==
    IF i >= 0 /\ i < Len(data) THEN [data EXCEPT ![i + 1] = v] ELSE data

IndexPanics(data, i) == ~(i >= 0 /\ i < Len(data))

\* RenderTarget::clear leaving the last element out
clear_short(rt, color) ==
    [rt EXCEPT !.data = [i \in 1 .. Len(rt.data) |->
                            IF i < Len(rt.data) THEN into(color) ELSE rt.data[i]]]

\* RenderTarget::clear
clear(rt, color) ==
    [rt EXCEPT !.data = [i \in 1 .. Len(rt.data) |-> into(color)]]

\* the bounds test of set_pixel, accepting y = height
set_pixel_index_yle(rt, x, y) ==
    IF x >= 0 /\ x < rt.width /\ y >= 0 /\ y <= rt.height
    THEN {x + y * rt.width}
    ELSE {}

\* the bounds test of set_pixel, accepting x = width
set_pixel_index_le(rt, x, y) ==
    IF x >= 0 /\ x <= rt.width /\ y >= 0 /\ y < rt.height
    THEN {x + y * rt.width}
    ELSE {}

\* RenderTarget::set_pixel: the indices it writes, {} when (x, y) fails the
\* bounds test
set_pixel_index(rt, x, y) ==
    IF x >= 0 /\ x < rt.width /\ y >= 0 /\ y < rt.height
    THEN {x + y * rt.width}
    ELSE {}

\* RenderTarget::set_pixel
set_pixel(rt, x, y, color) ==
    LET t == set_pixel_index(rt, x, y)
    IN  IF t = {} THEN rt
        ELSE [rt EXCEPT !.data = IndexMut(rt.data, CHOOSE i \in t : TRUE, into(color))]

set_pixel_panics(rt, x, y) ==
    \E i \in set_pixel_index(rt, x, y) : IndexPanics(rt.data, i)

\* RenderTarget::get_pixel reading column y of row x
get_pixel_transposed(rt, x, y) ==
    IF x >= 0 /\ x < rt.width /\ y >= 0 /\ y < rt.height
    THEN IF IndexPanics(rt.data, y + x * rt.width) THEN None
         ELSE Some(from(Index(rt.data, y + x * rt.width)))
    ELSE None

\* RenderTarget::get_pixel
get_pixel(rt, x, y) ==
    IF x >= 0 /\ x < rt.width /\ y >= 0 /\ y < rt.height
    THEN Some(from(Index(rt.data, x + y * rt.width)))
    ELSE None

(***************************************************************************)
(* Construction.                                                           *)
(***************************************************************************)
\* frame_timer counts in units of 1/Second of a second, so that `1.0` is
\* Second units; halves, quarters, ... of a second are exact in f32
Second == 2

\* RainCore::init (and RenderTarget::new for the render target on its own)
init(width, height, esc) ==
    /\ render_target = new(width, height)
    /\ panicked = FALSE
    /\ exit_on_esc = esc
    /\ active = TRUE
    /\ screen_width = width
    /\ screen_height = height
    /\ frame_timer = Second
    /\ frame_count = 0
    /\ title = None
    /\ window_open = TRUE
    /\ esc_down = FALSE
    /\ presented = None
    /\ pc = "idle"
    /\ elapsed = 0
    /\ trace = <<>>
    /\ calls = [run |-> 0, on_start |-> 0, on_exit |-> 0]
    /\ exit_called = FALSE
    /\ written = {}
    /\ stale = {}
    /\ op = [name |-> "init"]
    /\ ret = Unit

\* a render target of any size up to MaxDim x MaxDim, the empty ones included
InitRT == \E w \in 0 .. MaxDim, h \in 0 .. MaxDim : init(w, h, FALSE)

(***************************************************************************)
(* The inputs of the operations.                                           *)
(***************************************************************************)
Coords == -1 .. MaxDim + CoordSlack

\* the colors stored by the render target operations
Colors == {NONE, RED}

\* colors and words for the conversions: every channel and every byte takes
\* a low, a high and an odd value, and the values of test_color_to_u32 and
\* test_u32_to_color are among them
SampleColors ==
    {Color(r, g, b, a) : r \in {0, 124, 255}, g \in {1, 58, 255},
                         b \in {0, 126, 231}, a \in {0, 35, 255}}

SampleWords ==
    {<<b3 * 256 + b2, b1 * 256 + b0>> :
        b3 \in {0, 35, 255}, b2 \in {1, 124, 128}, b1 \in {0, 58, 255},
        b0 \in {126, 231, 255}}

(***************************************************************************)
(* The conversions between Color and u32, called on their own.             *)
(***************************************************************************)
Into(c) ==
    /\ op' = [name |-> "into", color |-> c]
    /\ ret' = into(c)
    /\ UNCHANGED <<rtVars, loopVars>>

From(n) ==
    /\ op' = [name |-> "from", n |-> n]
    /\ ret' = from(n)
    /\ UNCHANGED <<rtVars, loopVars>>

CallInto == \E c \in SampleColors : Into(c)
CallFrom == \E n \in SampleWords : From(n)

NextColor == CallInto \/ CallFrom

SpecColor == InitRT /\ [][NextColor]_vars

(***************************************************************************)
(* The render target, called on its own (as its unit tests do).            *)
(***************************************************************************)
Clear(color) ==
    /\ render_target' = clear(render_target, color)
    /\ op' = [name |-> "clear", color |-> color, before |-> render_target.data]
    /\ ret' = Unit
    /\ UNCHANGED <<panicked, loopVars>>

SetPixel(x, y, color) ==
    /\ render_target' = set_pixel(render_target, x, y, color)
    /\ panicked' = (panicked \/ set_pixel_panics(render_target, x, y))
    /\ op' = [name |-> "set_pixel", x |-> x, y |-> y, color |-> color,
              before |-> render_target.data]
    /\ ret' = Unit
    /\ UNCHANGED loopVars

GetPixel(x, y) ==
    /\ op' = [name |-> "get_pixel", x |-> x, y |-> y]
    /\ ret' = get_pixel(render_target, x, y)
    /\ UNCHANGED <<rtVars, loopVars>>

CallClear == \E c \in Colors : Clear(c)
CallSetPixel == \E x \in Coords, y \in Coords, c \in Colors : SetPixel(x, y, c)
CallGetPixel == \E x \in Coords, y \in Coords : GetPixel(x, y)

NextRT == CallClear \/ CallSetPixel \/ CallGetPixel

SpecRT == InitRT /\ [][NextRT]_vars

(***************************************************************************)
(* RainCore (core/mod.rs): drawing, exit, and the frame loop of run.       *)
(***************************************************************************)
\* the window of the frame loop is at most MaxWidth pixels wide
MaxWidth == 1
\* run may be called at most MaxRuns times
MaxRuns == 2
\* frame_count never exceeds MaxFrames: the tick that would take it there
\* is one whose elapsed time completes a second
MaxFrames == 2
\* a tick takes at most 1 second and ExtraElapsed units
ExtraElapsed == 1
MaxElapsed == Second + ExtraElapsed
\* frame_timer never exceeds MaxTimer before the second is taken off
MaxTimer == Second + MaxElapsed

\* IVec2
vec2(x, y) == [x |-> x, y |-> y]

\* the methods of RainCore can be called between init and run, after run has
\* returned, and from on_update, which is handed `rain: &mut RainCore`
Callable == pc \in {"idle", "update"}

\* the indices of the pixels that the calls `self.draw(pts[k], color)` of one
\* drawing method write
draw_indices(rt, pts) ==
    UNION {set_pixel_index(rt, pts[k].x, pts[k].y) : k \in 1 .. Len(pts)}

\* the state after those calls: they all store the same colour, so an element
\* holds it if one of them writes it and is left alone if none does
draw_all(rt, pts, color) ==
    LET hit == draw_indices(rt, pts)
    IN  [rt EXCEPT !.data = [i \in 1 .. Len(rt.data) |->
                                IF (i - 1) \in hit THEN into(color) ELSE rt.data[i]]]

\* a drawing method called as `call` that hands the points pts to
\* RainCore::draw; when traced, op also records those points and the buffer
\* before the call
Draws(call, traced, points, color) ==
    \E pts \in {points} :
    /\ Callable
    /\ render_target' = draw_all(render_target, pts, color)
    /\ panicked' = (panicked \/ \E k \in 1 .. Len(pts) :
                                    set_pixel_panics(render_target, pts[k].x, pts[k].y))
    /\ op' = IF traced
             THEN call @@ [drawn |-> pts, before |-> render_target.data]
             ELSE call
    /\ ret' = Unit
    /\ written' = IF pc = "update"
                  THEN written \cup draw_indices(render_target, pts)
                  ELSE written \ draw_indices(render_target, pts)
    /\ stale' = stale \ draw_indices(render_target, pts)
    /\ UNCHANGED <<coreVars, windowVars, runVars>>

\* a drawing method `name` that hands the points pts to RainCore::draw
Drawing(name, points, color) == Draws([name |-> name], FALSE, points, color)

\* RainCore::draw
draw(pos, color) == Drawing("draw", <<pos>>, color)

(***************************************************************************)
(* The rasterizer: each method as the sequence of points it hands to       *)
(* RainCore::draw, in the order of the calls.                              *)
(***************************************************************************)
Abs(n) == IF n < 0 THEN -n ELSE n

\* `a / b` on i32, which truncates toward zero
IDiv(a, b) == IF (a < 0) = (b < 0) THEN Abs(a) \div Abs(b) ELSE -(Abs(a) \div Abs(b))

\* the `loop` of draw_line without the test `y1 > self.screen_height`
RECURSIVE line_loop_tall(_, _, _, _, _, _, _, _, _, _, _)
line_loop_tall(x1, y1, x2, y2, dx, dy, sx, sy, err, sw, sh) ==
    IF \/ (x1 = x2 /\ y1 = y2)
       \/ x1 < 0 \/ x1 > sw
       \/ y1 < 0
    THEN <<vec2(x1, y1)>>
    ELSE LET stepx == err > -dx
             err1 == IF stepx THEN err - dy ELSE err
             stepy == err1 < dy
         IN  <<vec2(x1, y1)>> \o
             line_loop_tall(IF stepx THEN x1 + sx ELSE x1,
                       IF stepy THEN y1 + sy ELSE y1,
                       x2, y2, dx, dy, sx, sy,
                       IF stepy THEN err1 + dx ELSE err1,
                       sw, sh)

\* the `loop` of draw_line from the point (x1, y1) with error term err
RECURSIVE line_loop(_, _, _, _, _, _, _, _, _, _, _)
line_loop(x1, y1, x2, y2, dx, dy, sx, sy, err, sw, sh) ==
    IF \/ (x1 = x2 /\ y1 = y2)
       \/ x1 < 0 \/ x1 > sw
       \/ y1 < 0 \/ y1 > sh
    THEN <<vec2(x1, y1)>>
    ELSE LET stepx == err > -dx
             err1 == IF stepx THEN err - dy ELSE err
             stepy == err1 < dy
         IN  <<vec2(x1, y1)>> \o
             line_loop(IF stepx THEN x1 + sx ELSE x1,
                       IF stepy THEN y1 + sy ELSE y1,
                       x2, y2, dx, dy, sx, sy,
                       IF stepy THEN err1 + dx ELSE err1,
                       sw, sh)

\* RainCore::draw_line drawing the larger end of a column or a row as well
line_points_closed(p1, p2, sw, sh) ==
    LET dx == Abs(p2.x - p1.x)
        dy == Abs(p2.y - p1.y)
    IN  IF dx = 0
        THEN LET ylo == IF p2.y < p1.y THEN p2.y ELSE p1.y
                 yhi == IF p2.y < p1.y THEN p1.y ELSE p2.y
             IN  IF yhi < ylo THEN <<>>
                 ELSE [k \in 1 .. yhi - ylo + 1 |-> vec2(p1.x, ylo + k - 1)]
        ELSE IF dy = 0
        THEN LET xlo == IF p2.x < p1.x THEN p2.x ELSE p1.x
                 xhi == IF p2.x < p1.x THEN p1.x ELSE p2.x
             IN  IF xhi < xlo THEN <<>>
                 ELSE [k \in 1 .. xhi - xlo + 1 |-> vec2(xlo + k - 1, p1.y)]
        ELSE line_loop(p1.x, p1.y, p2.x, p2.y, dx, dy,
                       IF p1.x < p2.x THEN 1 ELSE -1,
                       IF p1.y < p2.y THEN 1 ELSE -1,
                       IF dx > dy THEN IDiv(dx, 2) ELSE IDiv(-dy, 2),
                       sw, sh)

\* RainCore::draw_line on a screen of sw x sh
line_points(p1, p2, sw, sh) ==
    LET dx == Abs(p2.x - p1.x)
        dy == Abs(p2.y - p1.y)
    IN  IF dx = 0
        THEN LET ylo == IF p2.y < p1.y THEN p2.y ELSE p1.y
                 yhi == IF p2.y < p1.y THEN p1.y ELSE p2.y
             IN  IF yhi <= ylo THEN <<>>
                 ELSE [k \in 1 .. yhi - ylo |-> vec2(p1.x, ylo + k - 1)]
        ELSE IF dy = 0
        THEN LET xlo == IF p2.x < p1.x THEN p2.x ELSE p1.x
                 xhi == IF p2.x < p1.x THEN p1.x ELSE p2.x
             IN  IF xhi <= xlo THEN <<>>
                 ELSE [k \in 1 .. xhi - xlo |-> vec2(xlo + k - 1, p1.y)]
        ELSE line_loop(p1.x, p1.y, p2.x, p2.y, dx, dy,
                       IF p1.x < p2.x THEN 1 ELSE -1,
                       IF p1.y < p2.y THEN 1 ELSE -1,
                       IF dx > dy THEN IDiv(dx, 2) ELSE IDiv(-dy, 2),
                       sw, sh)

\* the `while y0 >= x0` of draw_circle from the offsets (x0, y0) with
\* decision term d
RECURSIVE circle_loop(_, _, _, _)
circle_loop(pos, x0, y0, d) ==
    IF ~(y0 >= x0) THEN <<>>
    ELSE <<vec2(pos.x + x0, pos.y - y0), vec2(pos.x + y0, pos.y - x0),
           vec2(pos.x + y0, pos.y + x0), vec2(pos.x + x0, pos.y + y0),
           vec2(pos.x - x0, pos.y - y0), vec2(pos.x - y0, pos.y - x0),
           vec2(pos.x - y0, pos.y + x0), vec2(pos.x - x0, pos.y + y0)>>
         \o (IF d < 0
             THEN circle_loop(pos, x0 + 1, y0, d + 4 * x0 + 6)
             ELSE circle_loop(pos, x0 + 1, y0 - 1, d + 4 * ((x0 + 1) - (y0 - 1)) + 10))

\* RainCore::draw_circle returning early for r < 0 only
circle_points_r0(pos, r) ==
    IF r < 0 THEN <<>> ELSE circle_loop(pos, 0, r, 3 - 2 * r)

\* RainCore::draw_circle
circle_points(pos, r) ==
    IF r <= 0 THEN <<>> ELSE circle_loop(pos, 0, r, 3 - 2 * r)

\* the `while y0 >= x0` of fill_circle from the offsets (x0, y0) with
\* decision term d
RECURSIVE disc_loop(_, _, _, _, _, _)
disc_loop(pos, x0, y0, d, sw, sh) ==
    IF ~(y0 >= x0) THEN <<>>
    ELSE line_points(vec2(pos.x - x0, pos.y - y0), vec2(pos.x + x0, pos.y - y0), sw, sh)
         \o line_points(vec2(pos.x - y0, pos.y - x0), vec2(pos.x + y0, pos.y - x0), sw, sh)
         \o line_points(vec2(pos.x - x0, pos.y + y0), vec2(pos.x + x0, pos.y + y0), sw, sh)
         \o line_points(vec2(pos.x - y0, pos.y + x0), vec2(pos.x + y0, pos.y + x0), sw, sh)
         \o (IF d < 0
             THEN disc_loop(pos, x0 + 1, y0, d + 4 * x0 + 6, sw, sh)
             ELSE disc_loop(pos, x0 + 1, y0 - 1, d + 4 * ((x0 + 1) - (y0 - 1)) + 10, sw, sh))

\* RainCore::fill_circle
disc_points(pos, r, sw, sh) ==
    IF r <= 0 THEN <<>> ELSE disc_loop(pos, 0, r, 3 - 2 * r, sw, sh)

\* RainCore::draw_rect
rect_points(pos, size, sw, sh) ==
    LET p2 == vec2(pos.x + size.x, pos.y)
        p3 == vec2(pos.x + size.x, pos.y + size.y)
        p4 == vec2(pos.x, pos.y + size.y)
    IN  line_points(pos, p2, sw, sh) \o line_points(p2, p3, sw, sh)
        \o line_points(p3, p4, sw, sh) \o line_points(p4, pos, sw, sh)

\* RainCore::fill_rect with `pos.x..=p2.x` and `pos.y..=p2.y`
box_points_closed(pos, size) ==
    LET w == (pos.x + size.x) - pos.x + 1
        h == (pos.y + size.y) - pos.y + 1
    IN  IF w <= 0 \/ h <= 0 THEN <<>>
        ELSE [k \in 1 .. w * h |-> vec2(pos.x + ((k - 1) \div h), pos.y + ((k - 1) % h))]

\* RainCore::fill_rect: `for i in pos.x..p2.x { for j in pos.y..p2.y`, the
\* k-th draw being that of column (k - 1) \div h and row (k - 1) % h
box_points(pos, size) ==
    LET w == (pos.x + size.x) - pos.x
        h == (pos.y + size.y) - pos.y
    IN  IF w <= 0 \/ h <= 0 THEN <<>>
        ELSE [k \in 1 .. w * h |-> vec2(pos.x + ((k - 1) \div h), pos.y + ((k - 1) % h))]

\* RainCore::draw_triangle
triangle_points(p1, p2, p3, sw, sh) ==
    line_points(p1, p2, sw, sh) \o line_points(p2, p3, sw, sh) \o line_points(p3, p1, sw, sh)

(***************************************************************************)
(* f32.  A finite f32 is [s, m, e] with value s * m * 2^e, s in {-1, 0, 1}  *)
(* and 2^23 <= m < 2^24 unless it is zero; every operation rounds to        *)
(* nearest, ties to even, as IEEE 754 does.  The values met here are far    *)
(* from the subnormal and the overflow range.                               *)
(***************************************************************************)
F32Zero == [s |-> 0, m |-> 0, e |-> 0]

\* an infinity or a NaN, the result of dividing by zero; the loops that add
\* such a slope to their accumulators end before the sum is read
F32NonFinite == [s |-> 0, m |-> -1, e |-> 0]

Sign(n) == IF n > 0 THEN 1 ELSE IF n < 0 THEN -1 ELSE 0

RECURSIVE BitLen(_)
BitLen(n) == IF n = 0 THEN 0 ELSE 1 + BitLen(n \div 2)

\* the f32 nearest to s * (q + t) * 2^e, where q > 0 and 0 < t < 1 if sticky,
\* t = 0 if not
F32Pack(s, q, sticky, e) ==
    LET len == BitLen(q) IN
    IF len <= 24
    THEN [s |-> s, m |-> q * Pow2(24 - len), e |-> e - (24 - len)]
    ELSE LET sh == len - 24
             m0 == q \div Pow2(sh)
             rem == q % Pow2(sh)
             half == Pow2(sh - 1)
             up == rem > half \/ (rem = half /\ (sticky \/ m0 % 2 = 1))
             m1 == IF up THEN m0 + 1 ELSE m0
         IN  IF m1 = Pow2(24)
             THEN [s |-> s, m |-> Pow2(23), e |-> e + sh + 1]
             ELSE [s |-> s, m |-> m1, e |-> e + sh]

\* `n as f32` for an i32 of less than 2^24 in size
F32FromInt(n) == IF n = 0 THEN F32Zero ELSE F32Pack(Sign(n), Abs(n), FALSE, 0)

\* k more binary digits of the quotient q, remainder r, of a division by b
RECURSIVE LongDiv(_, _, _, _)
LongDiv(q, r, b, k) ==
    IF k = 0 THEN <<q, r>>
    ELSE IF 2 * r >= b
         THEN LongDiv(2 * q + 1, 2 * r - b, b, k - 1)
         ELSE LongDiv(2 * q, 2 * r, b, k - 1)

\* `n as f32 / d as f32`
F32Div(n, d) ==
    IF d = 0 THEN F32NonFinite
    ELSE IF n = 0 THEN F32Zero
    ELSE LET a == Abs(n)
             b == Abs(d)
             digits == 26 + BitLen(b) - BitLen(a)
             qr == LongDiv(a \div b, a % b, b, digits)
         IN  F32Pack(Sign(n) * Sign(d), qr[1], qr[2] # 0, -digits)

\* `x + y` on f32
F32Add(x, y) ==
    IF x.m < 0 \/ y.m < 0 THEN F32NonFinite
    ELSE IF x.s = 0 THEN y
    ELSE IF y.s = 0 THEN x
    ELSE LET xbig == x.e > y.e \/ (x.e = y.e /\ x.m >= y.m)
             big == IF xbig THEN x ELSE y
             small == IF xbig THEN y ELSE x
             diff == big.e - small.e
             mb == big.m * 8
             lost == diff > 3 /\ (diff - 3 >= 25 \/ small.m % Pow2(diff - 3) # 0)
             ms == IF diff <= 3 THEN small.m * Pow2(3 - diff)
                   ELSE IF diff - 3 >= 25 THEN 0
                   ELSE small.m \div Pow2(diff - 3)
             q == IF big.s = small.s THEN mb + ms
                  ELSE mb - ms - (IF lost THEN 1 ELSE 0)
         IN  IF q = 0 THEN F32Zero ELSE F32Pack(big.s, q, lost, big.e - 3)

\* `-x` on f32
F32Neg(x) == IF x.m < 0 THEN x ELSE [x EXCEPT !.s = -x.s]

\* `x * (n as f32)` for an i32 of less than 2^7 in size
F32MulInt(x, n) ==
    IF x.m < 0 THEN F32NonFinite
    ELSE IF x.s = 0 \/ n = 0 THEN F32Zero
    ELSE F32Pack(x.s * Sign(n), x.m * Abs(n), FALSE, x.e)

\* `f32::round(x) as i32`: to the nearest integer, halves away from zero
F32Round(x) ==
    IF x.s = 0 THEN 0
    ELSE IF x.e >= 0 THEN x.s * x.m * Pow2(x.e)
    ELSE IF -x.e > 24 THEN 0
    ELSE x.s * ((x.m \div Pow2(-x.e))
                + (IF x.m % Pow2(-x.e) >= Pow2(-x.e - 1) THEN 1 ELSE 0))

(***************************************************************************)
(* Filled triangles.                                                       *)
(***************************************************************************)
\* the values of an f32 accumulator before and after each of n steps
\* `x += s`: <<x, x + s, (x + s) + s, ..>>, every sum rounded as it is made.
\* The steps are made in order, the second half of them from the value the
\* first half ends with.
RECURSIVE F32Sums(_, _, _)
F32Sums(x, s, n) ==
    IF n = 0 THEN <<x>>
    ELSE CHOOSE sums \in
            {half \o F32Sums(F32Add(half[Len(half)], s), s, n - (n \div 2) - 1) :
                half \in {F32Sums(x, s, n \div 2)}} : TRUE

\* the concatenation of seqs[lo] .. seqs[hi]
RECURSIVE Concat(_, _, _)
Concat(seqs, lo, hi) ==
    IF lo > hi THEN <<>>
    ELSE IF lo = hi THEN seqs[lo]
    ELSE Concat(seqs, lo, (lo + hi) \div 2) \o Concat(seqs, (lo + hi) \div 2 + 1, hi)

\* the scanlines of a `for y` loop that starts at y0 and moves by dy, the
\* k-th between the rounded k-th values of the accumulators x1 and x2
scanlines(x1s, x2s, y0, dy, sw, sh) ==
    Concat([k \in 1 .. Len(x1s) |->
               line_points(vec2(F32Round(x1s[k]), y0 + dy * (k - 1)),
                           vec2(F32Round(x2s[k]), y0 + dy * (k - 1)), sw, sh)],
           1, Len(x1s))

\* RainCore::fill_triangle_bottom: `for y in p1.y..=p2.y` with `x1 += s1` and
\* `x2 += s2`
fill_triangle_bottom(p1, p2, p3, sw, sh) ==
    IF p1.y > p2.y THEN <<>>
    ELSE \* the set holds one pair, the values of x1 and of x2
         LET xs == {<<F32Sums(F32FromInt(p1.x), F32Div(p2.x - p1.x, p2.y - p1.y),
                              p2.y - p1.y),
                      F32Sums(F32FromInt(p1.x), F32Div(p3.x - p1.x, p3.y - p1.y),
                              p2.y - p1.y)>>}
         IN  CHOOSE pts \in {scanlines(x[1], x[2], p1.y, 1, sw, sh) : x \in xs} : TRUE

\* RainCore::fill_triangle_top: `for y in (p1.y..=p3.y).rev()` with `x1 -= s1`
\* and `x2 -= s2`, which add -s1 and -s2
fill_triangle_top(p1, p2, p3, sw, sh) ==
    IF p1.y > p3.y THEN <<>>
    ELSE LET xs == {<<F32Sums(F32FromInt(p3.x),
                              F32Neg(F32Div(p3.x - p1.x, p3.y - p1.y)), p3.y - p1.y),
                      F32Sums(F32FromInt(p3.x),
                              F32Neg(F32Div(p3.x - p2.x, p3.y - p2.y)), p3.y - p1.y)>>}
         IN  CHOOSE pts \in {scanlines(x[1], x[2], p3.y, -1, sw, sh) : x \in xs} : TRUE

\* `// sort vertices` without the third swap
sort_vertices_two_swaps(p1, p2, p3) ==
    LET a == IF p1.y > p2.y THEN <<p2, p1, p3>> ELSE <<p1, p2, p3>>
    IN  IF a[1].y > a[3].y THEN <<a[3], a[2], a[1]>> ELSE a

\* `// sort vertices`: the three conditional swaps of fill_triangle
sort_vertices(p1, p2, p3) ==
    LET a == IF p1.y > p2.y THEN <<p2, p1, p3>> ELSE <<p1, p2, p3>>
        b == IF a[1].y > a[3].y THEN <<a[3], a[2], a[1]>> ELSE a
    IN  IF b[2].y > b[3].y THEN <<b[1], b[3], b[2]>> ELSE b

\* RainCore::fill_triangle taking the vertices as they are passed
filled_triangle_points_as_passed(p1, p2, p3, sw, sh) ==
    IF p2.y = p3.y THEN fill_triangle_bottom(p1, p2, p3, sw, sh)
    ELSE IF p1.y = p2.y THEN fill_triangle_top(p1, p2, p3, sw, sh)
    ELSE LET p4 == vec2(p1.x + F32Round(F32MulInt(F32Div(p2.y - p1.y, p3.y - p1.y),
                                                   p3.x - p1.x)),
                        p2.y)
         IN  fill_triangle_bottom(p1, p2, p4, sw, sh)
             \o fill_triangle_top(p2, p4, p3, sw, sh)

\* RainCore::fill_triangle
filled_triangle_points(q1, q2, q3, sw, sh) ==
    LET v == sort_vertices(q1, q2, q3)
        p1 == v[1]
        p2 == v[2]
        p3 == v[3]
    IN  IF p2.y = p3.y THEN fill_triangle_bottom(p1, p2, p3, sw, sh)
        ELSE IF p1.y = p2.y THEN fill_triangle_top(p1, p2, p3, sw, sh)
        ELSE LET p4 == vec2(p1.x + F32Round(F32MulInt(F32Div(p2.y - p1.y, p3.y - p1.y),
                                                       p3.x - p1.x)),
                            p2.y)
             IN  fill_triangle_bottom(p1, p2, p4, sw, sh)
                 \o fill_triangle_top(p2, p4, p3, sw, sh)

(***************************************************************************)
(* The drawing methods of RainCore.                                        *)
(***************************************************************************)
draw_line(p1, p2, color) ==
    Drawing("draw_line", line_points(p1, p2, screen_width, screen_height), color)

draw_circle(pos, r, color) ==
    Drawing("draw_circle", circle_points(pos, r), color)

fill_circle(pos, r, color) ==
    Drawing("fill_circle", disc_points(pos, r, screen_width, screen_height), color)

draw_rect(pos, size, color) ==
    Drawing("draw_rect", rect_points(pos, size, screen_width, screen_height), color)

fill_rect(pos, size, color) ==
    Drawing("fill_rect", box_points(pos, size), color)

draw_triangle(p1, p2, p3, color) ==
    Drawing("draw_triangle", triangle_points(p1, p2, p3, screen_width, screen_height), color)

fill_triangle(p1, p2, p3, color) ==
    Drawing("fill_triangle",
            filled_triangle_points(p1, p2, p3, screen_width, screen_height), color)

\* the trace after a call of exit: a tick records the first call made from
\* its on_update
exit_trace ==
    IF pc = "update" /\ \A k \in 1 .. Len(trace) : trace[k] # "exit"
    THEN Append(trace, "exit")
    ELSE trace

\* RainCore::exit that also leaves the loop at once
exit_now ==
    /\ Callable
    /\ active' = FALSE
    /\ exit_called' = TRUE
    /\ trace' = exit_trace
    /\ pc' = IF pc = "update" THEN "while" ELSE pc
    /\ UNCHANGED <<rtVars, callVars, exit_on_esc, screen_width, screen_height, frame_timer,
                   frame_count, windowVars, elapsed, calls, frameVars>>

\* RainCore::exit
exit ==
    /\ Callable
    /\ active' = FALSE
    /\ exit_called' = TRUE
    /\ trace' = exit_trace
    /\ UNCHANGED <<rtVars, callVars, exit_on_esc, screen_width, screen_height, frame_timer,
                   frame_count, windowVars, pc, elapsed, calls, frameVars>>

\* an assignment to the public field RainCore::exit_on_esc
set_exit_on_esc(b) ==
    /\ Callable
    /\ exit_on_esc' = b
    /\ UNCHANGED <<rtVars, callVars, active, screen_width, screen_height, frame_timer,
                   frame_count, windowVars, runVars, frameVars>>

\* RainCore::run, up to the first test of the loop condition
run ==
    /\ pc = "idle"
    /\ calls.run < MaxRuns
    /\ calls' = [calls EXCEPT !.run = @ + 1, !.on_start = @ + 1]
    /\ trace' = <<>>
    /\ pc' = "while"
    /\ UNCHANGED <<rtVars, callVars, coreVars, windowVars, elapsed, exit_called, frameVars>>

\* the head of the loop, clearing the buffer before on_update
loop_enter_clearing ==
    /\ pc = "while"
    /\ active
    /\ \E e \in 0 .. MaxElapsed :
          /\ frame_timer + e <= MaxTimer
          /\ frame_count + 1 < MaxFrames \/ frame_timer + e >= Second
          /\ elapsed' = e
    /\ trace' = <<"on_update">>
    /\ render_target' = clear(render_target, NONE)
    /\ stale' = {}
    /\ written' = {}
    /\ pc' = "update"
    /\ UNCHANGED <<panicked, callVars, coreVars, windowVars, calls, exit_called>>

\* `while self.active` holds: the tick measures `elapsed` and calls on_update
loop_enter ==
    /\ pc = "while"
    /\ active
    /\ \E e \in 0 .. MaxElapsed :
          /\ frame_timer + e <= MaxTimer
          /\ frame_count + 1 < MaxFrames \/ frame_timer + e >= Second
          /\ elapsed' = e
    /\ trace' = <<"on_update">>
    /\ stale' = stale \cup written
    /\ written' = {}
    /\ pc' = "update"
    /\ UNCHANGED <<rtVars, callVars, coreVars, windowVars, calls, exit_called>>

\* on_update returning past the call of update_with_buffer
update_return_unpresented ==
    /\ pc = "update"
    /\ pc' = "fps"
    /\ UNCHANGED <<rtVars, callVars, coreVars, windowVars, elapsed, trace, calls,
                   exit_called, frameVars>>

\* on_update returns to run
update_return ==
    /\ pc = "update"
    /\ pc' = "present"
    /\ UNCHANGED <<rtVars, callVars, coreVars, windowVars, elapsed, trace, calls,
                   exit_called, frameVars>>

\* `self.window.update_with_buffer(..)`: the window shows the buffer and
\* takes in its events, after which it may be closed and Escape may be down
present ==
    /\ pc = "present"
    /\ presented' = Some(render_target.data)
    /\ window_open' \in (IF window_open THEN BOOLEAN ELSE {FALSE})
    /\ esc_down' \in BOOLEAN
    /\ trace' = Append(trace, "present")
    /\ pc' = "fps"
    /\ UNCHANGED <<rtVars, callVars, coreVars, title, elapsed, calls, exit_called,
                   frameVars>>

\* `// update frame count` with the timer set to zero when a second is over
frame_counter_zeroing ==
    /\ pc = "fps"
    /\ IF frame_timer + elapsed >= Second
       THEN /\ frame_timer' = 0
            /\ title' = Some(frame_count + 1)
            /\ frame_count' = 0
       ELSE /\ frame_timer' = frame_timer + elapsed
            /\ frame_count' = frame_count + 1
            /\ UNCHANGED title
    /\ trace' = Append(trace, "fps")
    /\ pc' = "check"
    /\ UNCHANGED <<rtVars, callVars, exit_on_esc, active, screen_width, screen_height,
                   window_open, esc_down, presented, elapsed, calls, exit_called,
                   frameVars>>

\* `// update frame count`
frame_counter ==
    /\ pc = "fps"
    /\ IF frame_timer + elapsed >= Second
       THEN /\ frame_timer' = frame_timer + elapsed - Second
            /\ title' = Some(frame_count + 1)
            /\ frame_count' = 0
       ELSE /\ frame_timer' = frame_timer + elapsed
            /\ frame_count' = frame_count + 1
            /\ UNCHANGED title
    /\ trace' = Append(trace, "fps")
    /\ pc' = "check"
    /\ UNCHANGED <<rtVars, callVars, exit_on_esc, active, screen_width, screen_height,
                   window_open, esc_down, presented, elapsed, calls, exit_called,
                   frameVars>>

\* `// check window status` with the Escape test not asking exit_on_esc
check_window_any_esc ==
    /\ pc = "check"
    /\ active' = (active /\ window_open /\ ~esc_down)
    /\ trace' = Append(trace, "check")
    /\ pc' = "while"
    /\ UNCHANGED <<rtVars, callVars, exit_on_esc, screen_width, screen_height,
                   frame_timer, frame_count, windowVars, elapsed, calls, exit_called,
                   frameVars>>

\* `// check window status` assigning the flag from the window's state
check_window_assigning ==
    /\ pc = "check"
    /\ active' = (window_open /\ ~(exit_on_esc /\ esc_down))
    /\ trace' = Append(trace, "check")
    /\ pc' = "while"
    /\ UNCHANGED <<rtVars, callVars, exit_on_esc, screen_width, screen_height,
                   frame_timer, frame_count, windowVars, elapsed, calls, exit_called,
                   frameVars>>

\* `// check window status`
check_window ==
    /\ pc = "check"
    /\ active' = IF ~window_open THEN FALSE
                 ELSE IF exit_on_esc /\ esc_down THEN FALSE
                 ELSE active
    /\ trace' = Append(trace, "check")
    /\ pc' = "while"
    /\ UNCHANGED <<rtVars, callVars, exit_on_esc, screen_width, screen_height,
                   frame_timer, frame_count, windowVars, elapsed, calls, exit_called,
                   frameVars>>

\* the end of the loop, calling on_exit without leaving the loop
loop_exit_again ==
    /\ pc = "while"
    /\ ~active
    /\ calls' = [calls EXCEPT !.on_exit = @ + 1]
    /\ pc' = "while"
    /\ UNCHANGED <<rtVars, callVars, coreVars, windowVars, elapsed, trace,
                   exit_called, frameVars>>

\* `while self.active` fails: on_exit is called and run returns
loop_exit ==
    /\ pc = "while"
    /\ ~active
    /\ calls' = [calls EXCEPT !.on_exit = @ + 1]
    /\ pc' = "idle"
    /\ UNCHANGED <<rtVars, callVars, coreVars, windowVars, elapsed, trace,
                   exit_called, frameVars>>

\* a window one pixel high and up to MaxWidth pixels wide, with either
\* setting of exit_on_esc
Init == \E w \in 1 .. MaxWidth, esc \in BOOLEAN : init(w, 1, esc)

CallDraw ==
    \E x \in -1 .. render_target.width, y \in 0 .. render_target.height, c \in Colors :
        draw(vec2(x, y), c)
CallExit == exit
CallSetExitOnEsc == \E b \in BOOLEAN : set_exit_on_esc(b)

Next ==
    \/ run
    \/ loop_enter
    \/ CallDraw
    \/ CallExit
    \/ CallSetExitOnEsc
    \/ update_return
    \/ present
    \/ frame_counter
    \/ check_window
    \/ loop_exit

Spec == Init /\ [][Next]_vars

\* run with callbacks and update_with_buffer that return: a call of on_update
\* comes back, the window call comes back, the straight-line code after it
\* is executed, and on_exit comes back
Returning ==
    /\ WF_vars(update_return)
    /\ WF_vars(present)
    /\ WF_vars(frame_counter)
    /\ WF_vars(check_window)
    /\ WF_vars(loop_exit)

SpecReturning == Spec /\ Returning

(***************************************************************************)
(* The surface: clear and every drawing method of RainCore, called in any  *)
(* order on a RainCore that is not running its loop.  RainCore::draw is    *)
(* the call of RenderTarget::set_pixel.                                    *)
(***************************************************************************)
InitSurface ==
    \E w \in 0 .. MaxDim, h \in 0 .. MaxDim : w * h <= MaxCells /\ init(w, h, FALSE)

Points == {vec2(x, y) : x \in Coords, y \in Coords}

\* the vertices of the triangles: left of, on and right of the surface,
\* above, on and below it
TriCoords == {-1, 1, MaxDim + CoordSlack}
TriPoints == {vec2(x, y) : x \in TriCoords, y \in TriCoords}

\* the third vertex is one of those on the diagonal
TriDiagonal == {vec2(c, c) : c \in TriCoords}

CallDrawPoint == \E p \in Points, c \in Colors : draw(p, c)
CallDrawLine == \E p1 \in Points, p2 \in Points : draw_line(p1, p2, RED)
CallDrawCircle == \E p \in Points, r \in Coords : draw_circle(p, r, RED)
CallFillCircle == \E p \in Points, r \in Coords : fill_circle(p, r, RED)
CallDrawRect == \E p \in Points, size \in Points : draw_rect(p, size, RED)
CallFillRect == \E p \in Points, size \in Points : fill_rect(p, size, RED)
CallDrawTriangle ==
    \E p1 \in TriPoints, p2 \in TriPoints, p3 \in TriDiagonal : draw_triangle(p1, p2, p3, RED)
CallFillTriangle ==
    \E p1 \in TriPoints, p2 \in TriPoints, p3 \in TriDiagonal : fill_triangle(p1, p2, p3, RED)

NextSurface ==
    \/ CallClear
    \/ CallDrawPoint
    \/ CallDrawLine
    \/ CallDrawCircle
    \/ CallFillCircle
    \/ CallDrawRect
    \/ CallFillRect
    \/ CallDrawTriangle
    \/ CallFillTriangle

SpecSurface == InitSurface /\ [][NextSurface]_vars

(***************************************************************************)
(* The rasterizer: each drawing method called on a surface as init left    *)
(* it, op recording the arguments, the points handed to RainCore::draw and *)
(* the buffer before the call.                                             *)
(***************************************************************************)
MaxSide == 4

\* the sides of the surfaces: none, and the two longest
Sides == {0, MaxSide - 1, MaxSide}

InitRaster == \E w \in Sides, h \in Sides : init(w, h, FALSE)

RasterCoords == -1 .. MaxSide + CoordSlack
RasterPoints == {vec2(x, y) : x \in RasterCoords, y \in RasterCoords}
Radii == -1 .. 2

\* the surface is as init left it
Fresh == op.name = "init"

DrawLine(p1, p2, color) ==
    /\ Fresh
    /\ Draws([name |-> "draw_line", p1 |-> p1, p2 |-> p2], TRUE,
             line_points(p1, p2, screen_width, screen_height), color)

DrawCircle(pos, r, color) ==
    /\ Fresh
    /\ Draws([name |-> "draw_circle", pos |-> pos, r |-> r], TRUE,
             circle_points(pos, r), color)

FillCircle(pos, r, color) ==
    /\ Fresh
    /\ Draws([name |-> "fill_circle", pos |-> pos, r |-> r], TRUE,
             disc_points(pos, r, screen_width, screen_height), color)

DrawRect(pos, size, color) ==
    /\ Fresh
    /\ Draws([name |-> "draw_rect", pos |-> pos, size |-> size], TRUE,
             rect_points(pos, size, screen_width, screen_height), color)

FillRect(pos, size, color) ==
    /\ Fresh
    /\ Draws([name |-> "fill_rect", pos |-> pos, size |-> size], TRUE,
             box_points(pos, size), color)

RasterLine == \E p1 \in RasterPoints, p2 \in RasterPoints : DrawLine(p1, p2, RED)
RasterCircle == \E p \in RasterPoints, r \in Radii : DrawCircle(p, r, RED)
RasterDisc == \E p \in RasterPoints, r \in Radii : FillCircle(p, r, RED)
RasterRect == \E p \in RasterPoints, size \in RasterPoints : DrawRect(p, size, RED)
RasterBox == \E p \in RasterPoints, size \in RasterPoints : FillRect(p, size, RED)

NextRaster ==
    \/ RasterLine
    \/ RasterCircle
    \/ RasterDisc
    \/ RasterRect
    \/ RasterBox

SpecRaster == InitRaster /\ [][NextRaster]_vars

\* the elements of the buffer written by the call that op records
Written == draw_indices([render_target EXCEPT !.data = op.before], op.drawn)

\* the element of the buffer that holds the pixel (x, y) of the surface
Cell(x, y) == x + y * render_target.width

\* the pixels of the surface
Surface == {vec2(x, y) : x \in 0 .. render_target.width - 1,
                         y \in 0 .. render_target.height - 1}

\* the points drawn by the call that op records
Drawn == {op.drawn[k] : k \in 1 .. Len(op.drawn)}

\* C3: whatever clear and the drawing methods are called with, the render
\* target keeps the width and height it was built with, its storage has
\* exactly width * height elements, and no write indexes outside it.
C3_StorageInvariant ==
    /\ render_target.width = screen_width
    /\ render_target.height = screen_height
    /\ Len(render_target.data) = screen_width * screen_height
    /\ ~panicked

\* fill_triangle has drawn on a 2 x 2 surface, which now holds red and
\* empty pixels
C3_Witness ==
    /\ op.name = "fill_triangle"
    /\ render_target.width = 2 /\ render_target.height = 2
    /\ \E i \in 1 .. 4 : render_target.data[i] = into(RED)
    /\ \E i \in 1 .. 4 : render_target.data[i] = Zero

(***************************************************************************)
(* Properties of the render target and of the conversions.                 *)
(***************************************************************************)
\* (x, y) lies on the surface
OnSurface(x, y) ==
    /\ 0 <= x /\ x < render_target.width
    /\ 0 <= y /\ y < render_target.height

\* C1: after set_pixel(x, y, C) with (x, y) on the surface, whatever the
\* operations before it, get_pixel(x, y) returns Some(C).
C1_SetThenGet ==
    (op.name = "set_pixel" /\ OnSurface(op.x, op.y))
        => get_pixel(render_target, op.x, op.y) = Some(op.color)

\* set_pixel has just overwritten the last pixel of a 2 x 2 target with a
\* color it did not hold
C1_Witness ==
    /\ op.name = "set_pixel"
    /\ render_target.width = 2 /\ render_target.height = 2
    /\ op.x = 1 /\ op.y = 1 /\ op.color = RED
    /\ op.before[4] # into(RED)
    /\ op.before[1] = into(RED)

\* C2: set_pixel off the surface leaves every stored pixel as it was,
\* get_pixel off the surface returns None, and neither operation panics.
C2_OutOfBoundsNoOp ==
    /\ ~panicked
    /\ (op.name = "set_pixel" /\ ~OnSurface(op.x, op.y))
        => render_target.data = op.before
    /\ (op.name = "get_pixel" /\ ~OnSurface(op.x, op.y))
        => ret = None

\* set_pixel was called with x = width on a target that holds a red pixel
C2_Witness ==
    /\ op.name = "set_pixel"
    /\ render_target.width = 2 /\ render_target.height = 2
    /\ op.x = render_target.width /\ op.y = 0 /\ op.color = RED
    /\ render_target.data[1] = into(RED)
    /\ render_target.data[3] = Zero

\* C4: from(into(c)) = c for every color and into(from(n)) = n for every
\* 32-bit word.
C4_RoundTrip ==
    /\ op.name = "into" => from(ret) = op.color
    /\ op.name = "from" => into(ret) = op.n

\* a word with four different bytes was unpacked
C4_Witness ==
    /\ op.name = "from"
    /\ op.n = <<35 * 256 + 124, 255 * 256 + 126>>
    /\ ret.r # ret.g /\ ret.g # ret.b /\ ret.b # ret.a /\ ret.r # ret.a

\* C5: the packed word is a * 2^24 + r * 2^16 + g * 2^8 + b, unpacking reads
\* the channels from the same bytes, {124, 58, 231, 255} packs to 0xFF7C3AE7
\* and 0x237CFF7E unpacks to {124, 255, 126, 35}.
C5_BitLayout ==
    /\ op.name = "into" =>
          ret = <<op.color.a * 256 + op.color.r, op.color.g * 256 + op.color.b>>
    /\ op.name = "from" =>
          ret = Color(op.n[1] % 256, op.n[2] \div 256, op.n[2] % 256, op.n[1] \div 256)
    /\ (op.name = "into" /\ op.color = Color(124, 58, 231, 255))
          => ret = <<65404, 15079>>
    /\ (op.name = "from" /\ op.n = <<9084, 65406>>)
          => ret = Color(124, 255, 126, 35)

\* the color of test_color_to_u32 was packed
C5_Witness ==
    /\ op.name = "into"
    /\ op.color = Color(124, 58, 231, 255)
    /\ ret = <<65404, 15079>>

\* C6: after clear(C) the storage still has width * height elements, every
\* one equals into(C), and get_pixel returns Some(C) everywhere on the
\* surface.
C6_ClearSaturates ==
    op.name = "clear" =>
        /\ Len(render_target.data) = render_target.width * render_target.height
        /\ \A i \in 1 .. render_target.width * render_target.height :
              render_target.data[i] = into(op.color)
        /\ \A x \in 0 .. render_target.width - 1, y \in 0 .. render_target.height - 1 :
              get_pixel(render_target, x, y) = Some(op.color)

\* a 2 x 2 target that held both red and empty pixels was cleared to red
C6_Witness ==
    /\ op.name = "clear" /\ op.color = RED
    /\ render_target.width = 2 /\ render_target.height = 2
    /\ op.before[1] = into(RED) /\ op.before[4] = Zero
    /\ render_target.data[4] = into(RED)

(***************************************************************************)
(* Properties of the frame loop.                                           *)
(***************************************************************************)
\* the callbacks and window calls of one complete tick, in order
FullTick == <<"on_update", "present", "fps", "check">>

\* the trace without the calls of exit made by on_update
TickCalls(t) == SelectSeq(t, LAMBDA e : e # "exit")

ExitInTick == \E k \in 1 .. Len(trace) : trace[k] = "exit"

\* this step calls on_exit
OnExitStep == calls'.on_exit # calls.on_exit

\* C7: each call of run calls on_exit exactly once, as its last act; when it
\* does, the loop condition has just failed and the last tick, if there was
\* one, has gone through on_update, present, the frame count and the window
\* check; after on_exit no callback or window call of that run follows.
C7_OnExitOnceAfterLastTick ==
    /\ [](/\ pc = "idle" => calls.on_exit = calls.run
          /\ pc # "idle" => calls.on_exit = calls.run - 1)
    /\ [][/\ OnExitStep =>
                /\ calls'.on_exit = calls.on_exit + 1
                /\ pc = "while" /\ ~active /\ pc' = "idle"
                /\ trace = <<>> \/ TickCalls(trace) = FullTick
          /\ (pc = "idle" /\ calls'.run = calls.run) => (trace' = trace /\ pc' = "idle")
         ]_vars

\* run has returned after one or more ticks, ended by the window closing
C7_Witness ==
    /\ pc = "idle"
    /\ calls.run = 1 /\ calls.on_exit = 1
    /\ trace = FullTick
    /\ ~window_open /\ ~exit_called

\* C8: exit() called by on_update does not end the tick: on_update goes on,
\* the buffer it leaves is presented, the frame count and the window check
\* run, and then on_exit is called without another on_update.
C8_ExitTakesEffectAfterTick ==
    [][/\ (pc = "update" /\ ~exit_called /\ exit_called') => (pc' = "update" /\ ~active')
       /\ (OnExitStep /\ ExitInTick) =>
             /\ TickCalls(trace) = FullTick
             /\ presented = Some(render_target.data)
       /\ (pc = "while" /\ pc' = "update") => ~ExitInTick
      ]_vars

\* run has returned after a tick whose on_update called exit and drew a red
\* pixel, with the window still open and Escape up
C8_Witness ==
    /\ pc = "idle"
    /\ calls.on_exit = 1
    /\ trace = <<"on_update", "exit", "present", "fps", "check">>
    /\ window_open /\ ~esc_down
    /\ presented = Some(render_target.data)
    /\ render_target.data[1] = into(RED)

\* C9, as stated: the loop clears the buffer every tick, so the frame that a
\* tick presents holds no pixel value written by an earlier tick.
C9_ClearedEveryTick ==
    pc = "fps" => stale = {}

\* C9, amended: run itself never writes the buffer (only the drawing calls
\* do); what is presented is the buffer as on_update left it, so a pixel
\* written by an earlier tick and not overwritten since is presented again
\* with the value it had in the frame before.
C9_PixelsPersist ==
    [][/\ pc' # pc => render_target' = render_target
       /\ pc = "present" =>
             /\ presented' = Some(render_target.data)
             /\ presented # None =>
                   \A i \in stale : presented'.val[i + 1] = presented.val[i + 1]
      ]_vars

\* a tick has presented a red pixel that only an earlier tick had written
C9_Witness ==
    /\ pc = "fps"
    /\ 0 \in stale
    /\ written = {}
    /\ presented = Some(<<into(RED)>>)

\* a tick has just ended
TickEnded == pc = "while" /\ TickCalls(trace) = FullTick

\* C10: at the end of a tick active is false if the window is closed or if
\* exit_on_esc is set and Escape is down; with exit_on_esc unset, the window
\* open and exit() never called, active is true, Escape down or not, and the
\* next tick starts.
C10_TerminationCheck ==
    TickEnded =>
        /\ (~window_open \/ (exit_on_esc /\ esc_down)) => ~active
        /\ (~exit_on_esc /\ window_open /\ ~exit_called) =>
              (active /\ ENABLED loop_enter /\ ~ENABLED loop_exit)

\* a tick has ended with Escape down, exit_on_esc unset, and the loop going on
C10_Witness ==
    /\ TickEnded
    /\ ~exit_on_esc /\ esc_down /\ window_open /\ ~exit_called
    /\ active

\* C11: the bookkeeping step of every tick adds the elapsed time to the frame
\* timer and one to the frame counter; if the timer is then a second or more,
\* the title shows the incremented count, the timer is reduced by exactly one
\* second and the counter is 0; otherwise the title is untouched and the
\* counter keeps its incremented value.
C11_FrameBookkeeping ==
    [][pc = "fps" =>
          IF frame_timer + elapsed >= Second
          THEN /\ title' = Some(frame_count + 1)
               /\ frame_timer' = (frame_timer + elapsed) - Second
               /\ frame_count' = 0
          ELSE /\ title' = title
               /\ frame_timer' = frame_timer + elapsed
               /\ frame_count' = frame_count + 1]_vars

\* the bookkeeping of a tick has just set the title from two counted frames
\* and carried a remainder over
C11_Witness ==
    /\ pc = "check"
    /\ title = Some(2)
    /\ frame_count = 0
    /\ frame_timer > 0

\* the callbacks and window calls of a tick so far are the first ones of a
\* full tick, in its order
TickPrefix(t) == Len(t) <= Len(FullTick) /\ t = SubSeq(FullTick, 1, Len(t))

\* C20: the calls of every tick come in the order on_update, present, frame
\* bookkeeping, termination check, each at most once, so that no buffer is
\* presented without an on_update earlier in the tick and none twice; on_start
\* is called once per run, before its first tick.
C20_TickOrder ==
    /\ TickPrefix(TickCalls(trace))
    /\ pc = "while" => TickCalls(trace) \in {<<>>, FullTick}
    /\ pc = "present" => TickCalls(trace) = <<"on_update">>
    /\ pc = "fps" => TickCalls(trace) = <<"on_update", "present">>
    /\ pc = "check" => TickCalls(trace) = <<"on_update", "present", "fps">>
    /\ calls.on_start = calls.run
    /\ trace # <<>> => calls.on_start >= 1
    /\ presented.some => calls.on_start >= 1

\* a second tick of a run has presented its buffer
C20_Witness ==
    /\ pc = "fps"
    /\ title.some
    /\ TickCalls(trace) = <<"on_update", "present">>

\* a tick's termination check finds the window closed
ClosedAtCheck == pc = "check" /\ ~window_open

\* a call of run has not returned yet
Running == pc # "idle"

\* a step that starts a tick
TickStarts == pc = "while" /\ pc' = "update"

\* C21: cancellation is cooperative and effective.  The termination check of
\* a tick that finds the window closed leaves the active flag false, and so
\* does a call of exit(); once the flag is false it never becomes true
\* again and no new tick starts; and, with callbacks and the window call
\* returning, a run whose flag is false eventually returns, on_exit having
\* been called once for every call of run.
C21_Cancellation ==
    /\ [][ClosedAtCheck => ~active']_vars
    /\ [](exit_called => ~active)
    /\ [][~active => ~active' /\ ~TickStarts]_vars
    /\ (Running /\ ~active) ~> (~Running /\ calls.on_exit = calls.run)

\* the window was closed during the only tick of the first run, which
\* returned; a second run was called and returned without a tick
C21_Witness ==
    /\ ~Running
    /\ ~window_open
    /\ ~exit_called
    /\ ~active
    /\ calls.run = 2
    /\ calls.on_exit = 2
    /\ trace = <<>>

(***************************************************************************)
(* Properties of the rasterizer.                                           *)
(***************************************************************************)
Min(a, b) == IF a < b THEN a ELSE b
Max(a, b) == IF a < b THEN b ELSE a

\* the call that op records is draw_line with the endpoints in one column or
\* one row
AxisAligned == op.name = "draw_line" /\ (op.p1.x = op.p2.x \/ op.p1.y = op.p2.y)

\* the call that op records is draw_line with the endpoints in different
\* columns and rows
Slanted == op.name = "draw_line" /\ op.p1.x # op.p2.x /\ op.p1.y # op.p2.y

\* the points of the segment from a to b whose varying coordinate runs from
\* the smaller end (included) to the larger end (excluded)
HalfOpen(a, b) ==
    IF a.x = b.x
    THEN {vec2(a.x, y) : y \in Min(a.y, b.y) .. Max(a.y, b.y) - 1}
    ELSE {vec2(x, a.y) : x \in Min(a.x, b.x) .. Max(a.x, b.x) - 1}

\* the buffer holds the colour of the call in the elements ws and what it held
\* before in the others
WroteOnly(ws) ==
    /\ Written = ws
    /\ \A i \in 1 .. Len(render_target.data) :
          render_target.data[i] = IF (i - 1) \in ws THEN into(RED) ELSE op.before[i]

\* C12: for endpoints in one column or one row draw_line writes exactly the
\* pixels from the smaller end (included) to the larger end (excluded),
\* whichever end is given first: none for p1 = p2, and the same ones as
\* draw_line(p2, p1).
C12_AxisAlignedHalfOpen ==
    AxisAligned =>
        /\ Drawn = HalfOpen(op.p1, op.p2)
        /\ WroteOnly({Cell(p.x, p.y) : p \in HalfOpen(op.p1, op.p2) \cap Surface})
        /\ op.p1 = op.p2 => op.drawn = <<>>
        /\ Written = draw_indices(render_target,
                                  line_points(op.p2, op.p1, screen_width, screen_height))

\* a column was drawn from its lower end upwards, two pixels of it on the
\* surface, the upper end off it
C12_Witness ==
    /\ AxisAligned
    /\ op.p1.x = op.p2.x
    /\ op.p1.y > op.p2.y
    /\ op.p2.y < 0
    /\ Cardinality(Written) >= 2

\* C13: for endpoints on the surface in different columns and rows the first
\* pixel draw_line writes is p1, the last is p2, and none lies outside the
\* rectangle spanned by p1 and p2.
C13_ReachesTarget ==
    (Slanted /\ op.p1 \in Surface /\ op.p2 \in Surface) =>
        /\ op.drawn # <<>>
        /\ op.drawn[1] = op.p1
        /\ op.drawn[Len(op.drawn)] = op.p2
        /\ \A p \in Drawn :
              /\ Min(op.p1.x, op.p2.x) <= p.x /\ p.x <= Max(op.p1.x, op.p2.x)
              /\ Min(op.p1.y, op.p2.y) <= p.y /\ p.y <= Max(op.p1.y, op.p2.y)

\* C14: for p1 off the surface and p2 on it, in different columns and rows,
\* draw_line writes the pixel p2.
C14_ClippedNotDropped ==
    (Slanted /\ op.p1 \notin Surface /\ op.p2 \in Surface) =>
        Cell(op.p2.x, op.p2.y) \in Written

\* the outline through the corners pos and pos + size, the corners included
Outline(pos, size) ==
    {vec2(x, y) : x \in {pos.x, pos.x + size.x}, y \in pos.y .. pos.y + size.y}
    \cup {vec2(x, y) : x \in pos.x .. pos.x + size.x, y \in {pos.y, pos.y + size.y}}

\* C15: draw_rect(pos, size) with size.x > 0 and size.y > 0, all on the
\* surface, writes exactly the outline through its four corners, which are
\* 2 * (size.x + size.y) pixels.
C15_ClosedOutline ==
    (/\ op.name = "draw_rect"
     /\ op.size.x > 0 /\ op.size.y > 0
     /\ op.pos \in Surface
     /\ vec2(op.pos.x + op.size.x, op.pos.y + op.size.y) \in Surface) =>
        /\ Written = {Cell(p.x, p.y) : p \in Outline(op.pos, op.size)}
        /\ Cardinality(Written) = 2 * (op.size.x + op.size.y)

\* the cells of the rectangle at pos with size
Box(pos, size) ==
    {vec2(x, y) : x \in pos.x .. pos.x + size.x - 1, y \in pos.y .. pos.y + size.y - 1}

\* C16: fill_rect(pos, size) writes exactly the pixels of the surface with
\* pos.x <= x < pos.x + size.x and pos.y <= y < pos.y + size.y: size.x * size.y
\* of them when they are all on the surface, none when size.x <= 0 or
\* size.y <= 0.
C16_FillRectCells ==
    op.name = "fill_rect" =>
        /\ Drawn = Box(op.pos, op.size)
        /\ WroteOnly({Cell(p.x, p.y) : p \in Box(op.pos, op.size) \cap Surface})
        /\ Box(op.pos, op.size) \subseteq Surface =>
              Cardinality(Written) = Max(op.size.x, 0) * Max(op.size.y, 0)
        /\ (op.size.x <= 0 \/ op.size.y <= 0) => op.drawn = <<>>

\* a rectangle hanging over the left and upper edge of the surface was
\* filled, four of its nine cells on the surface
C16_Witness ==
    /\ op.name = "fill_rect"
    /\ op.pos = vec2(-1, -1)
    /\ op.size = vec2(3, 3)
    /\ Cardinality(Written) = 4

\* C18: draw_circle and fill_circle with r <= 0 write no pixel, whatever the
\* centre: the buffer is as it was before the call.
C18_NoCircleWithoutRadius ==
    (op.name \in {"draw_circle", "fill_circle"} /\ op.r <= 0) =>
        /\ op.drawn = <<>>
        /\ render_target.data = op.before

\* a circle of radius 0 was drawn around a pixel of the surface
C18_Witness ==
    /\ op.name = "draw_circle"
    /\ op.r = 0
    /\ op.pos \in Surface

\* the test that ends the `loop` of draw_line for a point off the surface
OffBounds(p) ==
    p.x < 0 \/ p.x > screen_width \/ p.y < 0 \/ p.y > screen_height

\* C19: draw_line ends for all endpoints and surfaces.  For endpoints in
\* different columns and rows its loop runs at most screen_width +
\* screen_height + 2 times: every point but the last is within the bounds and
\* is not the target, and the last is the target or has left the bounds.  For
\* the others it draws one point for each step between the ends.
C19_LineLoopExits ==
    /\ Slanted =>
          /\ Len(op.drawn) >= 1
          /\ Len(op.drawn) <= screen_width + screen_height + 2
          /\ \A k \in 1 .. Len(op.drawn) - 1 :
                op.drawn[k] # op.p2 /\ ~OffBounds(op.drawn[k])
          /\ op.drawn[Len(op.drawn)] = op.p2 \/ OffBounds(op.drawn[Len(op.drawn)])
    /\ AxisAligned =>
          Len(op.drawn) = Max(Abs(op.p2.x - op.p1.x), Abs(op.p2.y - op.p1.y))

\* a line on the largest surface missed its target and ran on until it left
\* the bounds
C19_Witness ==
    /\ Slanted
    /\ screen_width = MaxSide /\ screen_height = MaxSide
    /\ op.p1 \in Surface /\ op.p2 \in Surface
    /\ op.drawn[Len(op.drawn)] # op.p2
    /\ OffBounds(op.drawn[Len(op.drawn)])

(***************************************************************************)
(* The example of fill_triangle's documentation,                           *)
(* `core.fill_triangle(vec2(25, 100), vec2(75, 100), vec2(50, 0), WHITE)`,  *)
(* called on surfaces that hold it, with its vertices in any order.        *)
(***************************************************************************)
Example == <<vec2(25, 100), vec2(75, 100), vec2(50, 0)>>

\* the width and the height of the smallest surface that holds the example
ExampleExtent ==
    vec2(1 + Max(Max(Example[1].x, Example[2].x), Example[3].x),
         1 + Max(Max(Example[1].y, Example[2].y), Example[3].y))

\* the surfaces have up to MaxMargin columns and rows more than that
MaxMargin == 2

InitExample ==
    \E w \in ExampleExtent.x .. ExampleExtent.x + MaxMargin,
       h \in ExampleExtent.y .. ExampleExtent.y + MaxMargin : init(w, h, FALSE)

\* fill_triangle, op also recording the vertices after `// sort vertices`
FillTriangle(p1, p2, p3, color) ==
    /\ Fresh
    /\ Draws([name |-> "fill_triangle", p1 |-> p1, p2 |-> p2, p3 |-> p3,
              sorted |-> sort_vertices(p1, p2, p3)], TRUE,
             filled_triangle_points(p1, p2, p3, screen_width, screen_height), color)

ExampleTriangle ==
    \E f \in Permutations({1, 2, 3}), c \in {WHITE, RED} :
        FillTriangle(Example[f[1]], Example[f[2]], Example[f[3]], c)

NextExample == ExampleTriangle

SpecExample == InitExample /\ [][NextExample]_vars

\* the columns of the pixels of row y written by the call that op records
Span(y) == {x \in 0 .. render_target.width - 1 : Cell(x, y) \in Written}

\* a set of columns without a gap
Contiguous(xs) == \A a \in xs, b \in xs : \A x \in a .. b : x \in xs

\* C17: fill_triangle((25,100),(75,100),(50,0)) on a surface that holds the
\* triangle writes one contiguous, non-empty span of pixels on every row from
\* 0 to 100: one pixel on row 0 and the 50 pixels of the base on row 100.
C17_OneSpanPerScanline ==
    (op.name = "fill_triangle" /\ <<op.p1, op.p2, op.p3>> = Example) =>
        /\ \A y \in 0 .. 100 : Span(y) # {} /\ Contiguous(Span(y))
        /\ Cardinality(Span(0)) = 1
        /\ Cardinality(Span(100)) = 50

(***************************************************************************)
(* Discs.                                                                  *)
(***************************************************************************)
\* the call that op records is fill_circle with a positive radius and a disc
\* that lies on the surface
DiscOnSurface ==
    /\ op.name = "fill_circle"
    /\ op.r > 0
    /\ op.pos.x - op.r >= 0
    /\ op.pos.x + op.r < render_target.width
    /\ op.pos.y - op.r >= 0
    /\ op.pos.y + op.r < render_target.height

\* the cells that draw_circle writes for the circle of the recorded call
OutlineCells ==
    draw_indices([render_target EXCEPT !.data = op.before], circle_points(op.pos, op.r))

\* C22: fill_circle(center, r, C) with r > 0 and the disc on the surface
\* writes every pixel that draw_circle(center, r, C) writes, and on every row
\* from center.y - r to center.y + r the written pixels are one non-empty
\* span without a gap.
C22_SolidDisc ==
    DiscOnSurface =>
        /\ OutlineCells \subseteq Written
        /\ \A y \in op.pos.y - op.r .. op.pos.y + op.r :
               Span(y) # {} /\ Contiguous(Span(y))

(***************************************************************************)
(* Filled triangles of every shape: fill_triangle called on a surface as   *)
(* init left it, with vertices on and off the surface, rows shared by two  *)
(* or three of them included.                                              *)
(***************************************************************************)
InitTriangle ==
    \E w \in {MaxSide - 1, MaxSide}, h \in {MaxSide - 1, MaxSide} : init(w, h, FALSE)

TrianglePoints == {vec2(x, y) : x \in {-1, 1, MaxSide}, y \in -1 .. MaxSide - 1}

AnyTriangle ==
    \E p1 \in TrianglePoints, p2 \in TrianglePoints, p3 \in TrianglePoints :
        FillTriangle(p1, p2, p3, RED)

NextTriangle == AnyTriangle

SpecTriangle == InitTriangle /\ [][NextTriangle]_vars

\* the vertices that the recorded call of fill_triangle was passed
Passed == <<op.p1, op.p2, op.p3>>

\* s is an arrangement of the elements of t
Rearranged(s, t) == \E f \in Permutations({1, 2, 3}) : s = [k \in 1 .. 3 |-> t[f[k]]]

\* C23: after the three conditional swaps of fill_triangle the vertices are
\* a permutation of the vertices passed, with p1.y <= p2.y <= p3.y.
C23_SortedByY ==
    op.name = "fill_triangle" =>
        /\ Rearranged(op.sorted, Passed)
        /\ op.sorted[1].y <= op.sorted[2].y
        /\ op.sorted[2].y <= op.sorted[3].y

\* vertices passed in descending order of y, on three rows, come out
\* reversed
C23_Witness ==
    /\ op.name = "fill_triangle"
    /\ op.p1.y > op.p2.y
    /\ op.p2.y > op.p3.y
    /\ op.sorted = <<op.p3, op.p2, op.p1>>
    /\ Written # {}

\* C24: the pixels that fill_triangle writes are the same for each of the
\* six orders in which its three vertices can be passed.
C24_OrderIndependent ==
    op.name = "fill_triangle" =>
        \A f \in Permutations({1, 2, 3}) :
            draw_indices([render_target EXCEPT !.data = op.before],
                         filled_triangle_points(Passed[f[1]], Passed[f[2]], Passed[f[3]],
                                                screen_width, screen_height))
                = Written

\* a triangle with two vertices on its bottom row, passed first and right to
\* left, that wrote pixels
C24_Witness ==
    /\ op.name = "fill_triangle"
    /\ op.p1.y = op.p2.y
    /\ op.p1.x > op.p2.x
    /\ op.p3.y < op.p1.y
    /\ Written # {}

====
